---- MODULE Spec2Model ----
(***************************************************************************)
(* Model of the Skia confetti animation (src/App.tsx, the ConfettiSkia     *)
(* module): the ConfettiSkia driver (config resolution, looping clock,     *)
(* particle slots), the Confetti component (memoised parameters, pose      *)
(* evaluation) and the parameter generator getAnimationPropsForConfetti.   *)
(*                                                                         *)
(* Numbers.  A JavaScript number is modelled as an exact extended          *)
(* rational <<n, d>> with d >= 0 in lowest terms: d = 0 encodes the       *)
(* IEEE-754 specials, <<0,0>> = NaN, <<1,0>> = +Infinity, <<-1,0>> =       *)
(* -Infinity.  Rounding of binary floating point is not modelled.          *)
(* Math.PI, Math.sin and Math.cos are kept symbolic (see PiNum and Sym):   *)
(* structural equality of the canonical forms coincides with equality of   *)
(* the real numbers they denote for the angles the program builds          *)
(* (rational r plus rational multiple of pi, Lindemann-Weierstrass).       *)
(***************************************************************************)
EXTENDS Integers, Sequences, FiniteSets, TLC

VARIABLES
    config,      \* ConfettiSkia's `config` prop (Partial<ConfettiSkiaConfig>)
    layout,      \* useState<LayoutRectangle>(): <<>> while undefined, else <<width, height>>
    clock,       \* clock.current, in ms
    time,        \* time.current, the looped time handed to every Confetti
    mathRandom,  \* Math.random: the stream and the number of draws taken from it
    confettis    \* the mounted Confetti instances, in key order

vars == <<config, layout, clock, time, mathRandom, confettis>>

----------------------------------------------------------------------------
(* Extended rational arithmetic (JavaScript number semantics, exact).      *)

Abs(n) == IF n < 0 THEN -n ELSE n

Sign(n) == IF n < 0 THEN -1 ELSE IF n > 0 THEN 1 ELSE 0

RECURSIVE GCD(_, _)
GCD(a, b) == IF b = 0 THEN a ELSE GCD(b, a % b)

Norm(n, d) ==
    IF d = 0 THEN <<Sign(n), 0>>
    ELSE LET g == GCD(Abs(n), Abs(d))
             s == Sign(d)
         IN  <<(s * n) \div g, (s * d) \div g>>

R(n, d) == Norm(n, d)
I(n) == <<n, 1>>
NaN == <<0, 0>>
Zero == <<0, 1>>
One == <<1, 1>>

IsNaN(x) == x = NaN
IsFinite(x) == x[2] # 0

Mul(a, b) == Norm(a[1] * b[1], a[2] * b[2])

Neg(a) == <<-a[1], a[2]>>

Add(a, b) ==
    IF a[2] = 0 /\ b[2] = 0
    THEN (IF a[1] = b[1] THEN a ELSE NaN)
    ELSE Norm(a[1] * b[2] + b[1] * a[2], a[2] * b[2])

Sub(a, b) == Add(a, Neg(b))

Div(a, b) == Mul(a, Norm(IF b[1] < 0 THEN -b[2] ELSE b[2], Abs(b[1])))

\* a < b; false when either side is NaN
Less(a, b) == ~IsNaN(a) /\ ~IsNaN(b) /\ a[1] * b[2] < b[1] * a[2]

Leq(a, b) == ~IsNaN(a) /\ ~IsNaN(b) /\ a[1] * b[2] <= b[1] * a[2]

MathMin(a, b) == IF IsNaN(a) \/ IsNaN(b) THEN NaN ELSE IF Less(b, a) THEN b ELSE a

MathMax(a, b) == IF IsNaN(a) \/ IsNaN(b) THEN NaN ELSE IF Less(a, b) THEN b ELSE a

MathPow3(x) == Mul(x, Mul(x, x))

MathPow4(x) == Mul(Mul(x, x), Mul(x, x))

\* a % b of JavaScript for a >= 0 and b >= 0
JsMod(a, b) ==
    IF ~IsFinite(a) \/ IsNaN(b) \/ b = Zero THEN NaN
    ELSE IF ~IsFinite(b) THEN a
    ELSE Sub(a, Mul(b, I((a[1] * b[2]) \div (a[2] * b[1]))))

(* r + p * Math.PI with r, p rational.                                     *)
PiNum(r, p) == IF IsNaN(r) \/ IsNaN(p) THEN [r |-> NaN, p |-> NaN] ELSE [r |-> r, p |-> p]

\* p reduced to [0, 2): sin and cos have period 2 * pi
Mod2(p) == Norm(p[1] % (2 * p[2]), p[2])

(* c + k * fn(r + p * pi), fn one of "sin", "cos", or "" for a plain       *)
(* rational c.                                                             *)
Sym(c, k, fn, r, p) == [c |-> c, k |-> k, fn |-> fn, r |-> r, p |-> p]

Plain(c) == Sym(c, Zero, "", Zero, Zero)

\* Math.sin(a) * scale
MathSinTimes(a, scale) ==
    IF IsNaN(a.r) \/ IsNaN(scale) THEN Plain(NaN)
    ELSE IF a.r = Zero /\ a.p[2] = 1 THEN Plain(Zero)
    ELSE Sym(Zero, scale, "sin", a.r, Mod2(a.p))

\* Math.cos(a) * scale
MathCosTimes(a, scale) ==
    IF IsNaN(a.r) \/ IsNaN(scale) THEN Plain(NaN)
    ELSE IF a.r = Zero /\ a.p[2] = 1
         THEN Plain(IF a.p[1] % 2 = 0 THEN scale ELSE Neg(scale))
    ELSE Sym(Zero, scale, "cos", a.r, Mod2(a.p))

\* rational q + symbolic s
AddSym(q, s) ==
    IF IsNaN(q) \/ IsNaN(s.c) THEN Plain(NaN)
    ELSE Sym(Add(q, s.c), s.k, s.fn, s.r, s.p)

SymIsFinite(s) == IsFinite(s.c)

----------------------------------------------------------------------------
(* Easing / interpolation functions of the style closure.                  *)

easeInOutCubic(x) ==
    IF Less(x, R(1, 2))
    THEN Mul(I(4), MathPow3(x))
    ELSE Sub(One, Div(MathPow3(Add(Mul(I(-2), x), I(2))), I(2)))

easeOutQuart(x) == Sub(One, MathPow4(Sub(One, x)))

fastInterpolateUnclamped(x, inputRange, outputRange) ==
    LET t == Div(Sub(x, inputRange[1]), Sub(inputRange[2], inputRange[1]))
    IN  Add(outputRange[1], Mul(t, Sub(outputRange[2], outputRange[1])))

fastInterpolate(x, inputRange, outputRange) ==
    LET t == MathMin(MathMax(Div(Sub(x, inputRange[1]),
                                 Sub(inputRange[2], inputRange[1])), Zero), One)
    IN  Add(outputRange[1], Mul(t, Sub(outputRange[2], outputRange[1])))

----------------------------------------------------------------------------
(* The style computed value of Confetti: p is animationProps, t is         *)
(* time.current.  Each const of the closure is an operator of p and of the *)
(* consts it reads; style binds them in the closure's order.               *)

\* Ascending phase
ascendingTime(p, t) == MathMax(Sub(t, p.delay), Zero)

ascendingPercent(p, ascTime) == MathMin(Div(ascTime, p.ascendingDuration), One)

ascendingT(ascPercent) == easeInOutCubic(ascPercent)

ascendingX(p, ascT) == Add(p.startX, Mul(ascT, p.ascendingXOffset))

ascendingY(p, ascT) == Add(p.startY, Mul(ascT, Sub(p.ascendingYTarget, p.startY)))

ascendingOpacity(ascPercent) ==
    fastInterpolate(ascPercent, <<R(3, 10), R(8, 10)>>, <<Zero, One>>)

\* a hoveringTime that forgets the ascent
hoveringTimeNoAscent(p, t) == MathMax(Sub(t, p.delay), Zero)

\* Hovering phase
hoveringTime(p, t) == MathMax(Sub(Sub(t, p.delay), p.ascendingDuration), Zero)

hoveringPercent(p, hovTime) == MathMin(Div(hovTime, p.hoveringDuration), One)

hoveringT(hovPercent) ==
    Mul(easeOutQuart(hovPercent),
        fastInterpolate(hovPercent, <<R(8, 10), One>>, <<One, R(7, 10)>>))

hoveringY(p, hovT) == Mul(Neg(p.hoveringAmplitude), hovT)

\* Descending phase
descendingTime(p, t) ==
    MathMax(Sub(Sub(Sub(t, p.delay), p.ascendingDuration), p.hoveringDuration), Zero)

descendingPercent(p, descTime) == MathMin(Div(descTime, p.descendingDuration), One)

descendingSpeedFactor(descTime) ==
    fastInterpolate(descTime, <<Zero, I(1000)>>, <<R(7, 10), One>>)

\* descendingRandomFactor + (descendingTime / 1000) * (2 * Math.PI) * descendingRandomFactor
descendingRotateAngle(p, descTime) ==
    PiNum(p.descendingRandomFactor,
          Mul(Mul(Div(descTime, I(1000)), I(2)), p.descendingRandomFactor))

\* a descendingX without the sine wobble
descendingXNoWobble(p, descTime, angle) == Plain(Mul(descTime, p.descendingSpeedX))

descendingX(p, descTime, angle) ==
    AddSym(Mul(descTime, p.descendingSpeedX), MathSinTimes(angle, I(10)))

descendingY(p, descTime, speedFactor, angle) ==
    AddSym(Mul(Mul(descTime, speedFactor), p.descendingSpeedY), MathCosTimes(angle, I(10)))

descendingOpacity(descPercent) ==
    fastInterpolate(descPercent, <<R(8, 10), One>>, <<One, Zero>>)

\* a rotate that stops with the hovering phase
rotateClamped(p, hovTime) ==
    PiNum(Zero, Div(Mul(Div(MathMin(hovTime, p.hoveringDuration), I(1000)),
                        p.rotationVelocity), I(180)))

\* ((hoveringTime / 1000) * rotationVelocity * Math.PI) / 180
rotate(p, hovTime) ==
    PiNum(Zero, Div(Mul(Div(hovTime, I(1000)), p.rotationVelocity), I(180)))

style(p, t) ==
    LET ascTime == ascendingTime(p, t)
        ascPercent == ascendingPercent(p, ascTime)
        ascT == ascendingT(ascPercent)
        hovTime == hoveringTime(p, t)
        hovPercent == hoveringPercent(p, hovTime)
        descTime == descendingTime(p, t)
        descPercent == descendingPercent(p, descTime)
        angle == descendingRotateAngle(p, descTime)
    IN  [transform |->
             [translateX |-> AddSym(ascendingX(p, ascT), descendingX(p, descTime, angle)),
              translateY |-> AddSym(Add(ascendingY(p, ascT), hoveringY(p, hoveringT(hovPercent))),
                                    descendingY(p, descTime, descendingSpeedFactor(descTime),
                                                angle)),
              rotate     |-> rotate(p, hovTime),
              scale      |-> p.scale],
         opacity |-> Mul(ascendingOpacity(ascPercent), descendingOpacity(descPercent))]

----------------------------------------------------------------------------
(* Configuration.                                                          *)

defaultConfig ==
    [colors |-> <<"#22e39e", "#ed4e4e", "#fea134", "#ff8fd8", "#5c59f3">>,
     images |-> <<"confetti1.png", "confetti2.png", "confetti3.png", "confetti4.png">>,
     count |-> 50,
     delayRange |-> <<Zero, Zero>>,
     xSpawnRange |-> <<R(4, 10), R(6, 10)>>,
     ySpawnRange |-> <<R(5, 10), R(5, 10)>>,
     ascendingDurationRange |-> <<I(500), I(600)>>,
     ascendingXOffsetRange |-> <<I(-200), I(200)>>,
     hoveringDurationRange |-> <<I(200), I(200)>>,
     descendingDurationRange |-> <<I(2000), I(6000)>>]

ConfigFields == DOMAIN defaultConfig

RangeFields ==
    {"delayRange", "xSpawnRange", "ySpawnRange", "ascendingDurationRange",
     "ascendingXOffsetRange", "hoveringDurationRange", "descendingDurationRange"}

----------------------------------------------------------------------------
(* The random source.  Math.random is a stream of draws; a draw is one of  *)
(* the levels of RandGrid and a stream is fixed by its seed and stride.    *)
(* lodash's random(lower, upper, true) maps a draw onto [lower, upper]     *)
(* inclusive, swapping the bounds when lower > upper; lodash's sample      *)
(* picks array[floor(rand * length)] and yields undefined for an empty     *)
(* array.  The resolution of RandGrid is what keeps every pose within      *)
(* TLC's 32-bit integers under exact arithmetic.                           *)

RandGrid == 0 .. 4

RandLevels == Cardinality(RandGrid)

Rngs == [seed : RandGrid, stride : RandGrid]

nativeRandom(rng, k) == (rng.seed + rng.stride * k + k \div RandLevels) % RandLevels

random(lower, upper, rand) ==
    LET lo == IF Less(upper, lower) THEN upper ELSE lower
        hi == IF Less(upper, lower) THEN lower ELSE upper
    IN  MathMin(Add(lo, Mul(R(rand, RandLevels - 1), Sub(hi, lo))), hi)

randomInRange(range, rand) == random(range[1], range[2], rand)

undefined == "undefined"

sample(array, rand) ==
    IF Len(array) = 0 THEN undefined ELSE array[((rand * Len(array)) \div RandLevels) + 1]

\* the draws of one call are rng's draws base+1 .. base+DrawsPerConfetti
getAnimationPropsForConfetti(containerWidth, containerHeight, cfg, rng, base) ==
    LET u(k) == nativeRandom(rng, base + k)
    IN  [delay |-> randomInRange(cfg.delayRange, u(1)),
         startX |-> Mul(randomInRange(cfg.xSpawnRange, u(2)), I(containerWidth)),
         startY |-> Mul(randomInRange(cfg.ySpawnRange, u(3)), I(containerHeight)),
         ascendingDuration |-> randomInRange(cfg.ascendingDurationRange, u(4)),
         ascendingXOffset |-> randomInRange(cfg.ascendingXOffsetRange, u(5)),
         ascendingYTarget |-> Mul(randomInRange(<<R(-3, 10), R(2, 10)>>, u(6)),
                                  I(containerHeight)),
         hoveringDuration |-> randomInRange(cfg.hoveringDurationRange, u(7)),
         hoveringAmplitude |-> randomInRange(<<I(2), I(4)>>, u(8)),
         descendingDuration |-> randomInRange(cfg.descendingDurationRange, u(9)),
         descendingSpeedX |-> Div(randomInRange(<<I(-30), I(30)>>, u(10)), I(1000)),
         descendingSpeedY |-> Div(randomInRange(<<I(150), I(200)>>, u(11)), I(1000)),
         descendingRandomFactor |-> randomInRange(<<I(-1), I(1)>>, u(12)),
         rotationVelocity |-> randomInRange(<<I(40), I(360)>>, u(13)),
         scale |-> R(9, 10),
         color |-> sample(cfg.colors, u(14)),
         image |-> sample(cfg.images, u(15))]

DrawsPerConfetti == 15

----------------------------------------------------------------------------
(* The Confetti component.                                                 *)

\* animationProps under a dependency list of [containerWidth, containerHeight]
useMemoLayoutDeps(mounted, memo, fresh) == fresh

\* useMemo(() => getAnimationPropsForConfetti(...), []): computed on mount only
useMemoAnimationProps(mounted, memo, fresh) == IF mounted THEN memo ELSE fresh

\* first render of a Confetti with props (time, containerLayout, config)
MountConfetti(t, containerLayout, cfg, rng, base) ==
    LET animationProps ==
            useMemoAnimationProps(FALSE, undefined,
                getAnimationPropsForConfetti(containerLayout[1], containerLayout[2],
                                             cfg, rng, base))
    IN  [config |-> cfg,
         containerLayout |-> containerLayout,
         animationProps |-> animationProps,
         style |-> style(animationProps, t)]

\* re-render of a mounted Confetti c with a new containerLayout prop
RenderConfetti(c, containerLayout, rng, base) ==
    [c EXCEPT !.containerLayout = containerLayout,
              !.animationProps =
                  useMemoAnimationProps(TRUE, c.animationProps,
                      getAnimationPropsForConfetti(containerLayout[1], containerLayout[2],
                                                   c.config, rng, base))]

\* useComputedValue(..., [time]): style is recomputed when time changes
UpdateStyle(c, t) == [c EXCEPT !.style = style(c.animationProps, t)]

----------------------------------------------------------------------------
(* SpecConfetti: one Confetti component, mounted with props drawn from     *)
(* bounded sets, whose time prop then takes arbitrary values.  Here the    *)
(* variable config is the Confetti's config prop and layout its            *)
(* containerLayout prop; clock is not used.                                *)

MaxTick == 140

\* the values the time prop takes, in ms
Times == {50 * k : k \in 0 .. MaxTick}

Layouts == {<<400, 800>>, <<500, 1000>>}

\* the configuration of the end-to-end scenario
scenarioConfig ==
    [defaultConfig EXCEPT !.count = 1,
                          !.delayRange = <<Zero, Zero>>,
                          !.xSpawnRange = <<Zero, Zero>>,
                          !.ySpawnRange = <<Zero, Zero>>,
                          !.ascendingDurationRange = <<I(500), I(500)>>,
                          !.ascendingXOffsetRange = <<I(100), I(100)>>,
                          !.hoveringDurationRange = <<I(200), I(200)>>,
                          !.descendingDurationRange = <<I(2000), I(2000)>>]

delayedConfig == [defaultConfig EXCEPT !.delayRange = <<Zero, I(400)>>]

instantConfig ==
    [defaultConfig EXCEPT !.ascendingDurationRange = <<Zero, Zero>>,
                          !.hoveringDurationRange = <<Zero, I(200)>>,
                          !.descendingDurationRange = <<Zero, I(2000)>>]

reversedRangeConfig == [defaultConfig EXCEPT !.delayRange = <<I(400), Zero>>]

noImagesConfig == [defaultConfig EXCEPT !.images = <<>>]

ConfettiConfigs ==
    {defaultConfig, scenarioConfig, delayedConfig, instantConfig,
     reversedRangeConfig, noImagesConfig}

InitConfetti ==
    \E cfg \in ConfettiConfigs, l \in {<<500, 1000>>}, rng \in Rngs :
        /\ config = cfg
        /\ layout = l
        /\ clock = 0
        /\ time = Zero
        /\ mathRandom = [rng |-> rng, draws |-> DrawsPerConfetti]
        /\ confettis = <<MountConfetti(Zero, l, cfg, rng, 0)>>

\* the time SkiaValue changes (a frame later, or back to the start of the
\* loop): every computed value depending on it is recomputed
TimeChange(t) ==
    /\ t \in {time[1] + 50, 0}
    /\ I(t) # time
    /\ time' = I(t)
    /\ confettis' = [i \in DOMAIN confettis |-> UpdateStyle(confettis[i], I(t))]
    /\ UNCHANGED <<config, layout, clock, mathRandom>>

NextConfetti == \E t \in Times : TimeChange(t)

SpecConfetti == InitConfetti /\ [][NextConfetti]_vars

----------------------------------------------------------------------------
(* Spec: the ConfettiSkia component as App mounts it.                      *)

MaxClock == 7600

\* the clock advances by a frame step, or by a whole default loop
FrameSteps == {800, 6800}

\* the streams Math.random may follow in Spec
SpecRngs == {r \in Rngs : r.stride = 1}

NoLayout == <<>>

\* the config prop: App's {count: 50}, and a caller overriding three fields
ConfigProps ==
    {[count |-> 50],
     [count |-> 3, delayRange |-> <<Zero, I(400)>>,
      descendingDurationRange |-> <<I(1000), I(1000)>>]}

\* {...defaultConfig, config}
resolvedConfig(cfgProp) == ("config" :> cfgProp) @@ defaultConfig

totalDuration(rc) ==
    Add(Add(rc.ascendingDurationRange[2], rc.hoveringDurationRange[2]),
        rc.descendingDurationRange[2])

\* the time computed value without the modulo
loopedTimeNoWrap(c, total) == I(c)

\* clock.current % totalDuration
loopedTime(c, total) == JsMod(I(c), total)

Init ==
    /\ config \in ConfigProps
    /\ layout = NoLayout
    /\ clock = 0
    /\ time = loopedTime(0, totalDuration(resolvedConfig(config)))
    /\ mathRandom \in [rng : SpecRngs, draws : {0}]
    /\ confettis = <<>>

\* onLayout={e => setLayout(e.nativeEvent.layout)} and the render that follows:
\* the first report mounts range(count) Confettis, each taking its draws from
\* Math.random; a later report re-renders them
OnLayout(l) ==
    /\ layout' = l
    /\ IF layout = NoLayout
       THEN /\ confettis' =
                  [i \in 1 .. resolvedConfig(config).count |->
                      MountConfetti(time, l, resolvedConfig(config), mathRandom.rng,
                                    mathRandom.draws + (i - 1) * DrawsPerConfetti)]
            /\ mathRandom' = [mathRandom EXCEPT !.draws =
                              @ + resolvedConfig(config).count * DrawsPerConfetti]
       ELSE /\ confettis' =
                  [i \in DOMAIN confettis |->
                      RenderConfetti(confettis[i], l, mathRandom.rng,
                                     mathRandom.draws + (i - 1) * DrawsPerConfetti)]
            /\ mathRandom' = mathRandom
    /\ UNCHANGED <<config, clock, time>>

\* the clock value changes: time, then every Confetti's style, is recomputed
ClockTick(dt) ==
    /\ clock + dt <= MaxClock
    /\ clock' = clock + dt
    /\ time' = loopedTime(clock', totalDuration(resolvedConfig(config)))
    /\ confettis' = [i \in DOMAIN confettis |-> UpdateStyle(confettis[i], time')]
    /\ UNCHANGED <<config, layout, mathRandom>>

Next ==
    \/ \E l \in Layouts : OnLayout(l)
    \/ \E dt \in FrameSteps : ClockTick(dt)

Spec == Init /\ [][Next]_vars

----------------------------------------------------------------------------
(* Vocabulary of the properties.                                           *)

MaxLoops == 2

ParamsOf(i) == confettis[i].animationProps

\* delay + ascendingDuration + hoveringDuration + descendingDuration
EndOfDescent(p) ==
    Add(Add(Add(p.delay, p.ascendingDuration), p.hoveringDuration), p.descendingDuration)

ValidParameters(p) ==
    /\ Leq(Zero, p.delay)
    /\ Less(Zero, p.ascendingDuration)
    /\ Less(Zero, p.hoveringDuration)
    /\ Less(Zero, p.descendingDuration)

\* every range has min <= max and no palette is empty while count > 0
ValidConfig(cfg) ==
    /\ \A f \in RangeFields : Leq(cfg[f][1], cfg[f][2])
    /\ cfg.count >= 0
    /\ cfg.count > 0 => Len(cfg.colors) > 0 /\ Len(cfg.images) > 0

AscendFrac(p, t) == ascendingPercent(p, ascendingTime(p, t))
HoverFrac(p, t) == hoveringPercent(p, hoveringTime(p, t))
DescendFrac(p, t) == descendingPercent(p, descendingTime(p, t))

InUnitInterval(x) == Leq(Zero, x) /\ Leq(x, One)

StyleIsFinite(st) ==
    /\ SymIsFinite(st.transform.translateX)
    /\ SymIsFinite(st.transform.translateY)
    /\ IsFinite(st.transform.rotate.p)
    /\ IsFinite(st.transform.scale)
    /\ IsFinite(st.opacity)

\* the particle of the end-to-end scenario
IsScenarioParticle(p) ==
    /\ p.delay = Zero
    /\ p.ascendingDuration = I(500)
    /\ p.hoveringDuration = I(200)
    /\ p.descendingDuration = I(2000)
    /\ p.startX = Zero
    /\ p.startY = Zero
    /\ p.ascendingXOffset = I(100)
    /\ p.ascendingYTarget = I(-50)

----------------------------------------------------------------------------
(* Properties of the Confetti component (SpecConfetti).                    *)

\* C1: for a particle with positive phase durations, the opacity of the
\* evaluated pose is exactly 0 whenever time < delay and whenever
\* time >= delay + ascendingDuration + hoveringDuration + descendingDuration.
C1_InvisibleOutsideWindow ==
    \A i \in DOMAIN confettis :
        LET p == ParamsOf(i)
        IN  (ValidParameters(p) /\ (Less(time, p.delay) \/ Leq(EndOfDescent(p), time)))
                => confettis[i].style.opacity = Zero

\* a delayed particle is evaluated at or after the end of its descent
C1_Witness ==
    \E i \in DOMAIN confettis :
        LET p == ParamsOf(i)
        IN  /\ ValidParameters(p)
            /\ Less(Zero, p.delay)
            /\ Leq(EndOfDescent(p), time)
            /\ confettis[i].style.opacity = Zero

\* C2: every particle generated from a valid config (a non-zero delayRange
\* included) ends its descent no later than totalDuration of that config.
C2_TrajectoryWithinLoop ==
    \A i \in DOMAIN confettis :
        ValidConfig(confettis[i].config)
            => Leq(EndOfDescent(ParamsOf(i)), totalDuration(confettis[i].config))

\* C3 as stated: the scenario particle at t = 250 has translateX == 50 and
\* opacity == 0.4, whatever its other parameters.
C3_ScenarioAsStated ==
    \A i \in DOMAIN confettis :
        (IsScenarioParticle(ParamsOf(i)) /\ time = I(250))
            => /\ confettis[i].style.transform.translateX = Plain(I(50))
               /\ confettis[i].style.opacity = R(2, 5)

\* C3 amended: the scenario particle at t = 250 has opacity == 0.4 and
\* translateX == 50 + 10 * sin(descendingRandomFactor), which is 50 exactly
\* when descendingRandomFactor is 0.
C3_ScenarioWithWobble ==
    \A i \in DOMAIN confettis :
        LET p == ParamsOf(i)
            st == confettis[i].style
        IN  (IsScenarioParticle(p) /\ time = I(250))
                => /\ st.opacity = R(2, 5)
                   /\ st.transform.translateX =
                          AddSym(I(50), MathSinTimes(PiNum(p.descendingRandomFactor, Zero),
                                                     I(10)))
                   /\ (st.transform.translateX = Plain(I(50)))
                          <=> (p.descendingRandomFactor = Zero)

\* the scenario particle, with a non-zero descendingRandomFactor, at t = 250
C3_Witness ==
    \E i \in DOMAIN confettis :
        /\ IsScenarioParticle(ParamsOf(i))
        /\ time = I(250)
        /\ ParamsOf(i).descendingRandomFactor # Zero

\* C4: under a valid config, a phase of duration 0 has completion fraction 1
\* from the start of its window on, and no field of the pose is NaN or
\* infinite.
C4_InstantPhaseIsTotal ==
    \A i \in DOMAIN confettis :
        LET p == ParamsOf(i)
        IN  ValidConfig(confettis[i].config)
                => /\ (p.ascendingDuration = Zero /\ Leq(p.delay, time))
                          => AscendFrac(p, time) = One
                   /\ (p.hoveringDuration = Zero
                          /\ Leq(Add(p.delay, p.ascendingDuration), time))
                          => HoverFrac(p, time) = One
                   /\ (p.descendingDuration = Zero
                          /\ Leq(Add(Add(p.delay, p.ascendingDuration),
                                     p.hoveringDuration), time))
                          => DescendFrac(p, time) = One
                   /\ StyleIsFinite(confettis[i].style)

\* what a failed generation would leave in place of the parameters
InvalidConfigError == [error |-> "InvalidConfig"]

\* C5: generation from a config with a range min > max, or with an empty
\* palette while count > 0, fails with InvalidConfig and yields no
\* parameters.
C5_InvalidConfigRejected ==
    \A i \in DOMAIN confettis :
        ~ValidConfig(confettis[i].config)
            => confettis[i].animationProps = InvalidConfigError

\* C8 as stated: at two looped times at or after the end of descent the
\* evaluated pose is the same.
C8_FinalPoseHeld ==
    [][\A i \in DOMAIN confettis :
          LET p == ParamsOf(i)
          IN  (ValidParameters(p) /\ Leq(EndOfDescent(p), time)
                   /\ Leq(EndOfDescent(p), time'))
                  => confettis'[i].style = confettis[i].style]_vars

\* C8 amended: at two looped times at or after the end of descent the
\* opacity is 0 and the scale is the same, but the pose is not held: rotate
\* differs whenever the two times differ.
C8_OnlyOpacityAndScaleHeld ==
    [][\A i \in DOMAIN confettis :
          LET p == ParamsOf(i)
              st1 == confettis[i].style
              st2 == confettis'[i].style
          IN  (ValidParameters(p) /\ Leq(EndOfDescent(p), time)
                   /\ Leq(EndOfDescent(p), time'))
                  => /\ st1.opacity = Zero /\ st2.opacity = Zero
                     /\ st2.transform.scale = st1.transform.scale
                     /\ time' # time
                            => st2.transform.rotate # st1.transform.rotate]_vars

\* the time has moved on past the end of descent
C8_Witness ==
    \E i \in DOMAIN confettis :
        /\ ValidParameters(ParamsOf(i))
        /\ Less(EndOfDescent(ParamsOf(i)), time)

FractionsOrdered(p, t) ==
    /\ InUnitInterval(AscendFrac(p, t))
    /\ InUnitInterval(HoverFrac(p, t))
    /\ InUnitInterval(DescendFrac(p, t))
    /\ Less(Zero, HoverFrac(p, t)) => AscendFrac(p, t) = One
    /\ Less(Zero, DescendFrac(p, t)) => HoverFrac(p, t) = One

\* C10: for a particle with positive phase durations the three completion
\* fractions lie in [0,1], never decrease as time grows, and are ordered:
\* hoverFrac > 0 implies ascendFrac == 1, descendFrac > 0 implies
\* hoverFrac == 1.
C10_PhaseSequencing ==
    /\ \A i \in DOMAIN confettis :
           ValidParameters(ParamsOf(i)) => FractionsOrdered(ParamsOf(i), time)
    /\ [][\A i \in DOMAIN confettis :
             LET p == ParamsOf(i)
             IN  ValidParameters(p)
                    => /\ FractionsOrdered(p, time')
                       /\ Leq(time, time')
                              => /\ Leq(AscendFrac(p, time), AscendFrac(p, time'))
                                 /\ Leq(HoverFrac(p, time), HoverFrac(p, time'))
                                 /\ Leq(DescendFrac(p, time), DescendFrac(p, time'))]_vars

\* a particle in the middle of its hovering phase
C10_Witness ==
    \E i \in DOMAIN confettis :
        LET p == ParamsOf(i)
        IN  /\ ValidParameters(p)
            /\ Less(Zero, HoverFrac(p, time))
            /\ Less(HoverFrac(p, time), One)

----------------------------------------------------------------------------
(* Properties of the ConfettiSkia component (Spec).                        *)

\* C6: the parameters of a particle are generated when its slot is created
\* by the first layout report, and no later event (clock tick, clock wrap,
\* later layout report) changes any of them.
C6_ParametersGeneratedOnce ==
    [][/\ (confettis = <<>> /\ confettis' # <<>>)
              => (layout = NoLayout /\ layout' # NoLayout)
       /\ \A i \in DOMAIN confettis :
              /\ i \in DOMAIN confettis'
              /\ confettis'[i].animationProps = confettis[i].animationProps]_vars

\* the clock has wrapped and the canvas has another height than the one the
\* particles were generated for
C6_Witness ==
    /\ confettis # <<>>
    /\ I(clock) # time
    /\ ParamsOf(1).startY # Mul(R(5, 10), I(layout[2]))

\* C7: time is clock mod totalDuration and lies in [0, totalDuration), and
\* the pose of every particle at clock c is the pose at c + k * totalDuration.
C7_ClockWrapDeterminism ==
    LET total == totalDuration(resolvedConfig(config))
    IN  /\ Leq(Zero, time) /\ Less(time, total)
        /\ time = I(clock % total[1])
        /\ \A k \in 1 .. MaxLoops : \A i \in DOMAIN confettis :
               style(ParamsOf(i), loopedTime(clock + k * total[1], total))
                   = confettis[i].style

\* particles are mounted and the clock has passed one whole loop
C7_Witness ==
    /\ confettis # <<>>
    /\ I(clock) # time

\* C9: every field the caller omits takes its default, every field the
\* caller supplies is the value of that field in the resolved configuration,
\* and the resolved count is the number of particle slots.
C9_ConfigResolution ==
    LET expected(f) == IF f \in DOMAIN config THEN config[f] ELSE defaultConfig[f]
    IN  /\ \A f \in ConfigFields : resolvedConfig(config)[f] = expected(f)
        /\ layout # NoLayout
               => /\ Len(confettis) = expected("count")
                  /\ \A i \in DOMAIN confettis : \A f \in ConfigFields :
                         confettis[i].config[f] = expected(f)

====
